---------------------------- MODULE Spec2Model ----------------------------
(***************************************************************************)
(* Crypto Bank Backend (src/main.py): users, USDT wallets and the          *)
(* transaction ledger kept in SQLite, behind FastAPI endpoints.            *)
(*                                                                         *)
(* The database (users, wallets, transactions) is the shared state.  Each  *)
(* worker serves one request at a time with a SQLAlchemy session of its    *)
(* own (get_db): rows it has loaded are private copies, and its changes    *)
(* reach the database only at db.commit(), which flushes every changed     *)
(* attribute and every added row in one database transaction.  A handler   *)
(* is split into steps exactly at its database round trips; the pure       *)
(* Python between two round trips belongs to the step of the round trip    *)
(* before it.  A field of the request body is drawn when the handler first *)
(* reads it.  Amounts and balances are floats: here whole numbers of USDT  *)
(* in a binary floating-point format of MantissaBits significant bits,     *)
(* every sum and difference rounded to nearest, ties to even.  The         *)
(* variable sent holds the response the last step sent, with the request   *)
(* fields the handler had read, and Quiet after a step that sent none.     *)
(***************************************************************************)
EXTENDS Integers, Sequences, FiniteSets, TLC

\* ---- program constants ----
ACCESS_TOKEN_EXPIRE_MINUTES == 30
SECRET_KEY == "your-secret-key-1234567890"
exchange_rate == 12700

\* ---- bounds of the model ----
MaxTxns == 2            \* rows the transactions table may hold
MaxTime == 45           \* the clock stops here (minutes)
MaxTokens == 2          \* credentials the clients keep
TickMinutes == 15       \* the clock is observed every TickMinutes
MantissaBits == 3       \* significant bits of a float (53 in CPython)

Workers == {"w1", "w2"}
Teller == {"w1"}        \* the worker of a deployment with a single worker
Usernames == {"alice", "bob"}
Passwords == {"pw", "pw2"}
Currencies == {"USDT", "UZS"}
TransactionTypes == {"deposit", "withdrawal", "transfer", "refund"}
Amounts == {0 - 1, 0, 1}  \* the amounts of requests: a float, any sign
NULL == 0

VARIABLES
    users,          \* table users: sequence of rows, id = position
    wallets,        \* table wallets
    transactions,   \* table transactions (the ledger)
    now,            \* datetime.utcnow(), in minutes
    issued,         \* tokens login has returned and clients still hold
    worker,         \* per worker: the request it serves and its session
    sent            \* the response sent by the last step

vars == <<users, wallets, transactions, now, issued, worker, sent>>

\* ---- rows ----
User(id, username, hashed_password) ==
    [id |-> id, username |-> username, hashed_password |-> hashed_password]

Wallet(id, user_id, currency, balance) ==
    [id |-> id, user_id |-> user_id, currency |-> currency, balance |-> balance]

\* timestamp is the column's default, datetime.utcnow at the INSERT
Transaction(id, user_id, amount, currency, transaction_type, recipient_wallet_id) ==
    [id |-> id, user_id |-> user_id, amount |-> amount, currency |-> currency,
     transaction_type |-> transaction_type,
     recipient_wallet_id |-> recipient_wallet_id, timestamp |-> now]

\* ---- float arithmetic ----
\* the distance between two neighbouring floats at magnitude m
RECURSIVE Ulp(_)
Ulp(m) == IF m < 2^MantissaBits THEN 1 ELSE 2 * Ulp(m \div 2)

\* The float nearest to the exact result x of an operation on two floats,
\* the tie going to the even mantissa.
Float(x) ==
    LET m == IF x < 0 THEN 0 - x ELSE x
        u == Ulp(m)
        lo == (m \div u) * u
        r == m - lo
        near == IF 2 * r > u \/ (2 * r = u /\ (lo \div u) % 2 = 1)
                THEN lo + u ELSE lo
    IN  IF x < 0 THEN 0 - near ELSE near

\* ---- security functions ----
get_password_hash(password) == <<"bcrypt", password>>

\* a verify that compares the stored hash with the plain text
verify_password_plain(plain_password, hashed_password) ==
    hashed_password = plain_password

verify_password(plain_password, hashed_password) ==
    hashed_password = get_password_hash(plain_password)

create_access_token(sub) ==
    [sub |-> sub, exp |-> now + ACCESS_TOKEN_EXPIRE_MINUTES, key |-> SECRET_KEY]

\* Tokens a client can present: the ones login returned, a token signed with
\* a key that is not the server's, and one that carries the server's
\* signature and names nobody in the users table.
ForgedTokens ==
    {[sub |-> "alice", exp |-> MaxTime + ACCESS_TOKEN_EXPIRE_MINUTES,
      key |-> "attacker-key"],
     [sub |-> "mallory", exp |-> MaxTime + ACCESS_TOKEN_EXPIRE_MINUTES,
      key |-> SECRET_KEY]}

Tokens == issued \cup ForgedTokens

\* ---- queries ----
\* db.query(User).filter(User.username == username).first(); NULL for None
UserByName(username) ==
    LET S == {i \in 1..Len(users) : users[i].username = username}
    IN  IF S = {} THEN NULL ELSE CHOOSE i \in S : \A j \in S : i <= j

\* db.query(Wallet).filter(user_id == .., currency == ..).first()
WalletOf(user_id, currency) ==
    LET S == {i \in 1..Len(wallets) :
                 wallets[i].user_id = user_id /\ wallets[i].currency = currency}
    IN  IF S = {} THEN NULL ELSE CHOOSE i \in S : \A j \in S : i <= j

\* db.query(Wallet).filter(Wallet.id == id).first()
WalletById(id) ==
    IF id \in 1..Len(wallets) THEN id ELSE NULL

\* jwt.decode told not to verify exp
jwt_decode_ok_no_exp(token) == token.key = SECRET_KEY

\* jwt.decode: the signature is the server's and exp has not passed
jwt_decode_ok(token) ==
    /\ token.key = SECRET_KEY
    /\ ~(token.exp < now)

\* get_current_user reading the claims of the token without verifying it
get_current_user_unverified(token) == UserByName(token.sub)

\* get_current_user: the id of the authenticated user, NULL for the 401
get_current_user(token) ==
    IF jwt_decode_ok(token) THEN UserByName(token.sub) ELSE NULL

convert_uzs_to_usdt(amount_uzs) == amount_uzs \div exchange_rate

\* ---- workers ----
NoToken == [sub |-> "", exp |-> 0, key |-> ""]
NoHash == <<>>
RecipientIds == 0..(Cardinality(Usernames) + 1)
\* Recipient ids a request that is not a transfer is sent with.
OptionalRecipients == {NULL, 1}

\* A worker with no request: what a session holds is set while one is served.
Idle ==
    [pc |-> "idle", op |-> "", token |-> NoToken, username |-> "",
     hashed_password |-> NoHash, user_id |-> NULL,
     wallet_id |-> NULL, loaded |-> 0, balance |-> 0,
     recipient_id |-> NULL, rloaded |-> 0, rbalance |-> 0,
     amount |-> 0, currency |-> "", transaction_type |-> ""]

Quiet ==
    [op |-> "", token |-> NoToken, username |-> "", user_id |-> NULL,
     amount |-> 0, currency |-> "", transaction_type |-> "",
     recipient_id |-> NULL, status |-> 0, detail |-> ""]

\* The response to request me: its status and detail, beside what was asked.
Response(me, status, detail) ==
    [op |-> me.op, token |-> me.token, username |-> me.username,
     user_id |-> me.user_id, amount |-> me.amount, currency |-> me.currency,
     transaction_type |-> me.transaction_type, recipient_id |-> me.recipient_id,
     status |-> status, detail |-> detail]

\* Worker w answers request me: the response leaves and get_db closes the
\* session, so the rows it held and every uncommitted change are dropped.
Respond(w, me, status, detail) ==
    /\ worker' = [worker EXCEPT ![w] = Idle]
    /\ sent' = Response(me, status, detail)

\* Worker w goes on with its request, now in state me; nothing is sent.
Continue(w, me) ==
    /\ worker' = [worker EXCEPT ![w] = me]
    /\ sent' = Quiet

\* ---- POST /users/ (create_user) ----
\* line 145-149: the duplicate check and the hash
CreateUserQuery(w, username, password) ==
    /\ worker[w].pc = "idle"
    /\ LET req == [Idle EXCEPT !.op = "create_user", !.username = username]
       IN  IF UserByName(username) # NULL
           THEN Respond(w, req, 400, "Username already registered")
           ELSE Continue(w, [req EXCEPT !.pc = "add_user",
                                !.hashed_password = get_password_hash(password)])
    /\ UNCHANGED <<users, wallets, transactions, now, issued>>

\* line 150-152: INSERT INTO users, commit; the UNIQUE index on username
\* refuses a second row (IntegrityError, not caught: 500)
CreateUserCommit(w) ==
    /\ worker[w].pc = "add_user"
    /\ IF UserByName(worker[w].username) # NULL
       THEN /\ Respond(w, worker[w], 500, "IntegrityError")
            /\ UNCHANGED users
       ELSE /\ users' = Append(users, User(Len(users) + 1, worker[w].username,
                                           worker[w].hashed_password))
            /\ Continue(w, [worker[w] EXCEPT !.pc = "add_wallet",
                                             !.user_id = Len(users) + 1])
    /\ UNCHANGED <<wallets, transactions, now, issued>>

\* line 154-157: INSERT INTO wallets, commit
CreateWalletCommit(w) ==
    /\ worker[w].pc = "add_wallet"
    /\ wallets' = Append(wallets,
                         Wallet(Len(wallets) + 1, worker[w].user_id, "USDT", 0))
    /\ Respond(w, worker[w], 200, "")
    /\ UNCHANGED <<users, transactions, now, issued>>

\* ---- POST /token (login) ----
\* a login that tells an unknown username from a wrong password
login_telling(w, username, password) ==
    /\ worker[w].pc = "idle"
    /\ LET req == [Idle EXCEPT !.op = "login", !.username = username]
           user == UserByName(username)
           access_token == create_access_token(username)
       IN  IF user = NULL
           THEN /\ Respond(w, req, 404, "User not found")
                /\ UNCHANGED issued
           ELSE IF ~verify_password(password, users[user].hashed_password)
           THEN /\ Respond(w, req, 401, "Incorrect username or password")
                /\ UNCHANGED issued
           ELSE /\ Cardinality(issued \cup {access_token}) <= MaxTokens
                /\ issued' = issued \cup {access_token}
                /\ Respond(w, [req EXCEPT !.token = access_token], 200, "")
    /\ UNCHANGED <<users, wallets, transactions, now>>

\* line 161-169
login(w, username, password) ==
    /\ worker[w].pc = "idle"
    /\ LET req == [Idle EXCEPT !.op = "login", !.username = username]
           user == UserByName(username)
           access_token == create_access_token(username)
       IN  IF user = NULL
              \/ ~verify_password(password, users[user].hashed_password)
           THEN /\ Respond(w, req, 401, "Incorrect username or password")
                /\ UNCHANGED issued
           ELSE /\ Cardinality(issued \cup {access_token}) <= MaxTokens
                /\ issued' = issued \cup {access_token}
                /\ Respond(w, [req EXCEPT !.token = access_token], 200, "")
    /\ UNCHANGED <<users, wallets, transactions, now>>

\* ---- GET /wallets/ (get_wallets) ----
get_wallets(w, token) ==
    /\ worker[w].pc = "idle"
    /\ LET req == [Idle EXCEPT !.op = "get_wallets", !.token = token]
           current_user == get_current_user(token)
       IN  IF current_user = NULL
           THEN Respond(w, req, 401, "Could not validate credentials")
           ELSE Respond(w, [req EXCEPT !.user_id = current_user], 200, "")
    /\ UNCHANGED <<users, wallets, transactions, now, issued>>

\* ---- POST /transactions/ (create_transaction) ----
\* the rows of the ledger written at or after time t
RowsSince(t) ==
    Cardinality({i \in 1..Len(transactions) : transactions[i].timestamp >= t})

\* the comparison turned round
InsufficientBalance_reversed(balance, amount) == balance > amount

\* line 188 and 192: wallet.balance < transaction.amount
InsufficientBalance(balance, amount) == balance < amount

\* get_current_user, then line 181-193 and 199-200
TransactionBegin(w, token, currency, transaction_type, amount) ==
    /\ worker[w].pc = "idle"
    /\ LET req == [Idle EXCEPT !.op = "create_transaction", !.token = token]
           current_user == get_current_user(token)
           wallet == WalletOf(current_user, currency)
           bal == wallets[wallet].balance
           read == [req EXCEPT !.user_id = current_user, !.currency = currency,
                               !.transaction_type = transaction_type]
           held == [read EXCEPT !.amount = amount, !.wallet_id = wallet,
                                !.loaded = bal, !.balance = bal]
       IN  IF current_user = NULL
           THEN Respond(w, req, 401, "Could not validate credentials")
           ELSE IF wallet = NULL
           THEN Respond(w, [req EXCEPT !.user_id = current_user,
                                       !.currency = currency],
                        400, "Wallet not found")
           ELSE IF transaction_type = "deposit"
           THEN Continue(w, [held EXCEPT !.pc = "commit",
                                         !.balance = Float(bal + amount)])
           ELSE IF transaction_type = "withdrawal"
           THEN IF InsufficientBalance(bal, amount)
                THEN Respond(w, held, 400, "Insufficient balance")
                ELSE Continue(w, [held EXCEPT !.pc = "commit",
                                              !.balance = Float(bal - amount)])
           ELSE IF transaction_type = "transfer"
           THEN IF InsufficientBalance(bal, amount)
                THEN Respond(w, held, 400, "Insufficient balance")
                ELSE Continue(w, [held EXCEPT !.pc = "recipient"])
           ELSE Respond(w, read, 400, "Invalid transaction type")
    /\ UNCHANGED <<users, wallets, transactions, now, issued>>

\* the debit written before the recipient is looked up
TransactionRecipient_debit_first(w, recipient_wallet_id) ==
    /\ worker[w].pc = "recipient"
    /\ LET me == worker[w]
           recipient_wallet == WalletById(recipient_wallet_id)
           asked == [me EXCEPT !.recipient_id = recipient_wallet_id]
       IN  IF recipient_wallet = NULL
           THEN /\ wallets' = [wallets EXCEPT ![me.wallet_id].balance =
                                                Float(me.balance - me.amount)]
                /\ Respond(w, asked, 400, "Recipient wallet not found")
           ELSE /\ UNCHANGED wallets
                /\ Continue(w, [asked EXCEPT !.pc = "commit",
                                   !.balance = Float(me.balance - me.amount),
                                   !.rloaded = wallets[recipient_wallet].balance,
                                   !.rbalance =
                                       Float(wallets[recipient_wallet].balance
                                             + me.amount)])
    /\ UNCHANGED <<users, transactions, now, issued>>

\* line 194-198: the recipient's row; the session's identity map hands back
\* the sender's own object when the ids are equal
TransactionRecipient(w, recipient_wallet_id) ==
    /\ worker[w].pc = "recipient"
    /\ LET me == worker[w]
           recipient_wallet == WalletById(recipient_wallet_id)
           asked == [me EXCEPT !.recipient_id = recipient_wallet_id]
       IN  IF recipient_wallet = NULL
           THEN Respond(w, asked, 400, "Recipient wallet not found")
           ELSE IF recipient_wallet = me.wallet_id
           THEN Continue(w, [asked EXCEPT !.pc = "commit",
                               !.balance = Float(Float(me.balance - me.amount)
                                                + me.amount)])
           ELSE Continue(w, [asked EXCEPT !.pc = "commit",
                               !.balance = Float(me.balance - me.amount),
                               !.rloaded = wallets[recipient_wallet].balance,
                               !.rbalance = Float(wallets[recipient_wallet].balance
                                                  + me.amount)])
    /\ UNCHANGED <<users, wallets, transactions, now, issued>>

\* a flush that writes the wallet of the caller and not the recipient's
Flush_caller_only(me) ==
    [i \in 1..Len(wallets) |->
        IF i = me.wallet_id /\ me.balance # me.loaded
        THEN [wallets[i] EXCEPT !.balance = me.balance]
        ELSE wallets[i]]

\* The flush of a commit: UPDATE wallets SET balance = <the session's value>
\* for each loaded wallet whose balance differs from the value it was loaded
\* with.
Flush(me) ==
    [i \in 1..Len(wallets) |->
        IF i = me.wallet_id /\ me.balance # me.loaded
        THEN [wallets[i] EXCEPT !.balance = me.balance]
        ELSE IF i = me.recipient_id /\ i # me.wallet_id /\ me.rbalance # me.rloaded
        THEN [wallets[i] EXCEPT !.balance = me.rbalance]
        ELSE wallets[i]]

\* line 202-213: the ledger row and the balances, one commit; the refresh
\* re-reads the row just written
TransactionCommit(w, recipient_wallet_id) ==
    /\ worker[w].pc = "commit"
    /\ worker[w].op = "create_transaction"
    /\ RowsSince(now) < MaxTxns
    /\ LET me == worker[w]
           stored == IF me.transaction_type = "transfer"
                     THEN me
                     ELSE [me EXCEPT !.recipient_id = recipient_wallet_id]
       IN  /\ me.transaction_type = "transfer"
                => recipient_wallet_id = me.recipient_id
           /\ me.transaction_type # "transfer"
                => recipient_wallet_id \in OptionalRecipients
           /\ wallets' = Flush(me)
           /\ transactions' = Append(transactions,
                 Transaction(Len(transactions) + 1, me.user_id, me.amount,
                             me.currency, me.transaction_type,
                             stored.recipient_id))
           /\ Respond(w, stored, 200, "")
    /\ UNCHANGED <<users, now, issued>>

\* ---- POST /convert/uzs_to_usdt/ (convert_currency) ----
\* get_current_user, then line 225-229
ConvertBegin(w, token, amount_uzs) ==
    /\ worker[w].pc = "idle"
    /\ LET req == [Idle EXCEPT !.op = "convert_currency", !.token = token]
           current_user == get_current_user(token)
           usdt_amount == convert_uzs_to_usdt(amount_uzs)
           wallet == WalletOf(current_user, "USDT")
           bal == wallets[wallet].balance
       IN  IF current_user = NULL
           THEN Respond(w, req, 401, "Could not validate credentials")
           ELSE IF wallet = NULL
           THEN Respond(w, [req EXCEPT !.user_id = current_user],
                        400, "USDT wallet not found")
           ELSE Continue(w, [req EXCEPT !.pc = "commit",
                               !.user_id = current_user,
                               !.amount = usdt_amount, !.currency = "USDT",
                               !.transaction_type = "deposit",
                               !.wallet_id = wallet, !.loaded = bal,
                               !.balance = Float(bal + usdt_amount)])
    /\ UNCHANGED <<users, wallets, transactions, now, issued>>

\* the commit without db.add(db_transaction): the balance, and no ledger row
ConvertCommit_without_row(w) ==
    /\ worker[w].pc = "commit"
    /\ worker[w].op = "convert_currency"
    /\ RowsSince(now) < MaxTxns
    /\ wallets' = [wallets EXCEPT ![worker[w].wallet_id].balance = worker[w].balance]
    /\ Respond(w, worker[w], 200, "")
    /\ UNCHANGED <<users, transactions, now, issued>>

\* line 230-239
ConvertCommit(w) ==
    /\ worker[w].pc = "commit"
    /\ worker[w].op = "convert_currency"
    /\ RowsSince(now) < MaxTxns
    /\ LET me == worker[w]
       IN  /\ wallets' = Flush(me)
           /\ transactions' = Append(transactions,
                 Transaction(Len(transactions) + 1, me.user_id, me.amount,
                             "USDT", "deposit", NULL))
           /\ Respond(w, me, 200, "")
    /\ UNCHANGED <<users, now, issued>>

\* ---- the environment ----
\* A request dies between two steps (the worker is killed, the connection
\* drops): get_db's finally closes the session, nothing uncommitted is kept.
Abort(w) ==
    /\ worker[w].pc # "idle"
    /\ Respond(w, worker[w], 500, "aborted")
    /\ UNCHANGED <<users, wallets, transactions, now, issued>>

Tick ==
    /\ now + TickMinutes <= MaxTime
    /\ now' = now + TickMinutes
    /\ sent' = Quiet
    /\ UNCHANGED <<users, wallets, transactions, issued, worker>>

\* ---- the bank with its customers: the ledger ----
\* The database file outlives the process.  Here alice and bob registered
\* before.  Alice holds a token from a login just now and one from a login
\* at time 0, which has expired since; bob has not logged in.
InitBank ==
    /\ users = <<User(1, "alice", get_password_hash("pw")),
                 User(2, "bob", get_password_hash("pw"))>>
    /\ wallets = <<Wallet(1, 1, "USDT", 0), Wallet(2, 2, "USDT", 0)>>
    /\ transactions = <<>>
    /\ now = ACCESS_TOKEN_EXPIRE_MINUTES + TickMinutes
    /\ worker = [w \in Workers |-> Idle]
    /\ sent = Quiet

Init ==
    /\ InitBank
    /\ issued = {create_access_token("alice"),
                 [create_access_token("alice") EXCEPT
                     !.exp = ACCESS_TOKEN_EXPIRE_MINUTES]}

\* One worker: the requests are served one after the other.
Next ==
    \/ \E w \in Teller, t \in Tokens, c \in Currencies,
          k \in TransactionTypes, a \in Amounts : TransactionBegin(w, t, c, k, a)
    \/ \E w \in Teller, r \in RecipientIds : TransactionRecipient(w, r)
    \/ \E w \in Teller, r \in RecipientIds : TransactionCommit(w, r)
    \/ \E w \in Teller, t \in Tokens, a \in Amounts :
          ConvertBegin(w, t, a * exchange_rate)
    \/ \E w \in Teller : ConvertCommit(w)
    \/ \E w \in Teller : Abort(w)

Spec == Init /\ [][Next]_vars

\* ---- the ledger under two workers ----
\* Several worker processes share the database file; alice and bob are both
\* logged in and send well-formed requests.
InitConcurrent ==
    /\ InitBank
    /\ issued = {create_access_token("alice"), create_access_token("bob")}

NextConcurrent ==
    \/ \E w \in Workers, t \in issued,
          k \in {"deposit", "withdrawal", "transfer"} :
             TransactionBegin(w, t, "USDT", k, 1)
    \/ \E w \in Workers, r \in 1..Len(wallets) : TransactionRecipient(w, r)
    \/ \E w \in Workers : TransactionCommit(w, worker[w].recipient_id)
    \/ \E w \in Workers, t \in issued : ConvertBegin(w, t, exchange_rate)
    \/ \E w \in Workers : ConvertCommit(w)
    \/ \E w \in Workers : Abort(w)

SpecConcurrent == InitConcurrent /\ [][NextConcurrent]_vars

\* ---- the ledger of funded wallets under two workers ----
\* Alice and bob each made one deposit a quarter of an hour ago: bob of 1,
\* alice of 1 or of an amount just beyond the whole numbers a float counts
\* one by one.  Both are logged in.
OpeningDeposits == {1, 2^MantissaBits + 2}

Funded(deposit) ==
    /\ users = <<User(1, "alice", get_password_hash("pw")),
                 User(2, "bob", get_password_hash("pw"))>>
    /\ wallets = <<Wallet(1, 1, "USDT", deposit), Wallet(2, 2, "USDT", 1)>>
    /\ now = ACCESS_TOKEN_EXPIRE_MINUTES + TickMinutes
    /\ transactions =
          <<[Transaction(1, 1, deposit, "USDT", "deposit", NULL)
                EXCEPT !.timestamp = now - TickMinutes],
            [Transaction(2, 2, 1, "USDT", "deposit", NULL)
                EXCEPT !.timestamp = now - TickMinutes]>>
    /\ issued = {create_access_token("alice"), create_access_token("bob")}
    /\ worker = [w \in Workers |-> Idle]
    /\ sent = Quiet

InitFunded == \E deposit \in OpeningDeposits : Funded(deposit)

NextFunded ==
    \/ \E w \in Workers, t \in issued,
          k \in {"deposit", "withdrawal", "transfer"} :
             TransactionBegin(w, t, "USDT", k, 1)
    \/ \E w \in Workers, r \in 1..Len(wallets) : TransactionRecipient(w, r)
    \/ \E w \in Workers : TransactionCommit(w, worker[w].recipient_id)
    \/ \E w \in Workers, t \in issued : ConvertBegin(w, t, exchange_rate)
    \/ \E w \in Workers : ConvertCommit(w)
    \/ \E w \in Workers : Abort(w)

SpecFunded == InitFunded /\ [][NextFunded]_vars

\* ---- the bank from its first start: identities ----
InitIdentity ==
    /\ users = <<>>
    /\ wallets = <<>>
    /\ transactions = <<>>
    /\ now = 0
    /\ issued = {}
    /\ worker = [w \in Workers |-> Idle]
    /\ sent = Quiet

NextIdentity ==
    \/ \E w \in Workers, u \in Usernames, p \in Passwords : CreateUserQuery(w, u, p)
    \/ \E w \in Workers : CreateUserCommit(w)
    \/ \E w \in Workers : CreateWalletCommit(w)
    \/ \E w \in Workers, u \in Usernames, p \in Passwords : login(w, u, p)
    \/ \E w \in Workers, t \in Tokens : get_wallets(w, t)
    \/ \E w \in Workers : Abort(w)
    \/ Tick

SpecIdentity == InitIdentity /\ [][NextIdentity]_vars

\* ======================= the claims =======================
BalanceOf(wallet_id) == wallets[wallet_id].balance

DatabaseUnchanged == UNCHANGED <<users, wallets, transactions>>

LedgerUnchanged == UNCHANGED <<wallets, transactions>>

RECURSIVE SumBalances(_)
SumBalances(n) ==
    IF n = 0 THEN 0 ELSE wallets[n].balance + SumBalances(n - 1)

\* deposits (conversions are stored as deposits) minus withdrawals of the
\* first n ledger rows; a transfer counts zero
RECURSIVE NetDeposits(_)
NetDeposits(n) ==
    IF n = 0 THEN 0
    ELSE NetDeposits(n - 1)
         + (IF transactions[n].transaction_type = "deposit"
            THEN transactions[n].amount
            ELSE IF transactions[n].transaction_type = "withdrawal"
            THEN 0 - transactions[n].amount
            ELSE 0)

\* C1: in every reachable state every wallet's balance is >= 0.
C1_BalancesNonNegative ==
    \A i \in 1..Len(wallets) : wallets[i].balance >= 0

\* C2: once all the concurrent deposits, withdrawals and transfers have
\* completed, the sum of the USDT balances is the sum before (zero) plus the
\* successful deposits minus the successful withdrawals.
C2_ConservationWhenQuiescent ==
    (\A w \in Workers : worker[w].pc = "idle")
        => SumBalances(Len(wallets)) = NetDeposits(Len(transactions))

\* C3: a withdrawal or a transfer whose amount is greater than the balance of
\* the caller's wallet, as the request reads it (line 181), is not taken
\* further: it is answered 400 "Insufficient balance" in that very step, and
\* the step changes no balance and no ledger row.
C3_InsufficientFundsRejected ==
    [][/\ \A w \in Workers :
             (/\ worker[w].pc = "idle"
              /\ worker'[w].pc # "idle"
              /\ worker'[w].op = "create_transaction"
              /\ worker'[w].transaction_type \in {"withdrawal", "transfer"})
                => worker'[w].amount <= BalanceOf(worker'[w].wallet_id)
       /\ (/\ worker' = worker
           /\ sent'.op = "create_transaction"
           /\ sent'.transaction_type \in {"withdrawal", "transfer"}
           /\ sent'.amount > BalanceOf(WalletOf(sent'.user_id, sent'.currency)))
             => /\ sent'.status = 400
                /\ sent'.detail = "Insufficient balance"
                /\ LedgerUnchanged]_vars

\* C3 witness: a withdrawal of 1 from alice's empty wallet has just been
\* answered "Insufficient balance".
C3_Witness ==
    /\ sent.op = "create_transaction"
    /\ sent.transaction_type = "withdrawal"
    /\ sent.amount = 1
    /\ sent.detail = "Insufficient balance"
    /\ BalanceOf(WalletOf(sent.user_id, sent.currency)) = 0

\* C4: a deposit, withdrawal, transfer or convert request whose amount is not
\* strictly positive is rejected, and the step that answers it changes no
\* balance and appends no ledger row.
C4_NonPositiveAmountRejected ==
    [][(/\ sent'.op \in {"create_transaction", "convert_currency"}
        /\ sent'.amount <= 0)
          => (sent'.status # 200 /\ LedgerUnchanged)]_vars

C7_GateBeforeMutation ==
    [][/\ \A w \in Workers :
             (worker[w].pc = "idle" /\ worker'[w].pc # "idle")
               => /\ worker'[w].token.key = SECRET_KEY
                  /\ worker'[w].token.exp >= now
                  /\ UserByName(worker'[w].token.sub) # NULL
                  /\ worker'[w].user_id = UserByName(worker'[w].token.sub)
       /\ (wallets' # wallets \/ transactions' # transactions)
            => \E w \in Workers :
                  LET me == worker[w]
                  IN  /\ me.pc = "commit"
                      /\ worker'[w].pc = "idle"
                      /\ me.token.key = SECRET_KEY
                      /\ me.token.exp >= now
                      /\ me.user_id # NULL
                      /\ me.user_id = UserByName(me.token.sub)
                      /\ wallets[me.wallet_id].user_id = me.user_id
                      /\ transactions'[Len(transactions')].user_id = me.user_id
                      /\ \A i \in 1..Len(wallets) :
                            (wallets'[i] # wallets[i]) =>
                               (\/ i = me.wallet_id
                                \/ /\ me.transaction_type = "transfer"
                                   /\ i = me.recipient_id)]_vars

\* C7 witness: a convert request with alice's valid token has just committed
\* its ledger row.
C7_Witness ==
    /\ sent.status = 200
    /\ sent.op = "convert_currency"
    /\ sent.token.key = SECRET_KEY
    /\ sent.token.exp >= now
    /\ Len(transactions) = 1
    /\ transactions[1].user_id = UserByName(sent.token.sub)

\* C8: a token login issued at time t carries exp = t + 30 minutes; presented
\* to get_current_user at any time after its exp it is refused with 401
\* "Could not validate credentials", and up to its exp it is accepted.
C8_ExpiredTokenRejected ==
    /\ (sent.op = "login" /\ sent.status = 200)
          => sent.token = [sub |-> sent.username,
                           exp |-> now + ACCESS_TOKEN_EXPIRE_MINUTES,
                           key |-> SECRET_KEY]
    /\ (sent.op = "get_wallets" /\ sent.token \in issued)
          => IF now > sent.token.exp
             THEN /\ sent.status = 401
                  /\ sent.detail = "Could not validate credentials"
             ELSE sent.status = 200

\* C8 witness: get_wallets has just refused a token that login had issued
\* and that has expired since.
C8_Witness ==
    /\ sent.op = "get_wallets"
    /\ sent.token \in issued
    /\ now > sent.token.exp
    /\ sent.status = 401

\* C9: a registration of a username that another request has registered is
\* answered 400 "Username already registered" and leaves users and wallets as
\* they are (no second user, no further wallet, the stored hash untouched);
\* this also when the two registrations run at the same time.
C9_DuplicateIdentityRejected ==
    [][(/\ sent'.op = "create_user"
        /\ UserByName(sent'.username) # NULL
        /\ sent'.detail # "aborted"
        /\ ~ \E w \in Workers :
                worker[w].pc = "add_wallet" /\ worker'[w].pc = "idle")
          => /\ sent'.status = 400
             /\ sent'.detail = "Username already registered"
             /\ DatabaseUnchanged]_vars

\* C10: in every state each user has a USDT wallet and each wallet has its
\* user: registration shows both or neither.
C10_UserAndWalletTogether ==
    /\ \A i \in 1..Len(users) : WalletOf(users[i].id, "USDT") # NULL
    /\ \A i \in 1..Len(wallets) : wallets[i].user_id \in 1..Len(users)

\* C11: a registration of username u with secret s that is answered 200
\* returns the id of the row that now holds u and the hash of s; from then
\* on every login(u, s) is answered 200 with a token for u; and every token
\* login has returned resolves, up to its expiry, to the id registration
\* returned for its username.
C11_RegisterLoginResolve ==
    [][/\ \A w \in Workers, u \in Usernames, p \in Passwords :
             (CreateUserQuery(w, u, p) /\ worker'[w].pc = "add_user")
               => /\ worker'[w].username = u
                  /\ worker'[w].hashed_password = get_password_hash(p)
       /\ \A w \in Workers :
             (/\ worker[w].pc = "add_wallet"
              /\ worker'[w].pc = "idle"
              /\ sent'.status = 200)
               => /\ sent'.op = "create_user"
                  /\ sent'.username = worker[w].username
                  /\ sent'.user_id = UserByName(sent'.username)
                  /\ users'[sent'.user_id].hashed_password
                        = worker[w].hashed_password
       /\ \A w \in Workers, u \in Usernames, p \in Passwords :
             (/\ login(w, u, p)
              /\ UserByName(u) # NULL
              /\ users[UserByName(u)].hashed_password = get_password_hash(p))
               => /\ sent'.status = 200
                  /\ sent'.token = create_access_token(u)
                  /\ sent'.token \in issued'
       /\ (/\ sent'.op = "get_wallets"
           /\ sent'.token \in issued
           /\ sent'.token.exp >= now)
             => /\ sent'.status = 200
                /\ sent'.user_id # NULL
                /\ users[sent'.user_id].username = sent'.token.sub]_vars

\* C11 witness: a token that login returned for a user registered since the
\* first start has just been resolved to that user's id.
C11_Witness ==
    /\ sent.op = "get_wallets"
    /\ sent.status = 200
    /\ sent.token \in issued
    /\ users[sent.user_id].username = sent.token.sub
    /\ users[sent.user_id].hashed_password = get_password_hash("pw")

\* C12: a convert of amount_uzs takes amount_uzs / 12700 USDT as its
\* settlement amount (1 for 12700); when it is answered 200, and no other
\* request has written the caller's wallet meanwhile, the caller's USDT
\* balance has gone up by exactly that amount, no other balance has changed,
\* and the ledger has exactly one new row: a deposit of the settlement
\* amount in USDT, the caller's, with no recipient.
C12_ConvertSettlesAtTheRate ==
    [][\A w \in Workers :
          LET me == worker[w]
          IN  /\ \A t \in Tokens, a \in Amounts :
                    (ConvertBegin(w, t, a * exchange_rate)
                       /\ worker'[w].pc = "commit")
                      => /\ worker'[w].amount = a
                         /\ worker'[w].wallet_id
                               = WalletOf(worker'[w].user_id, "USDT")
              /\ (/\ me.op = "convert_currency"
                  /\ me.pc = "commit"
                  /\ worker'[w].pc = "idle"
                  /\ sent'.status = 200
                  /\ wallets[me.wallet_id].balance = me.loaded)
                   => /\ sent'.amount = me.amount
                      /\ \A i \in 1..Len(wallets) :
                            wallets'[i].balance =
                               IF i = me.wallet_id
                               THEN wallets[i].balance + me.amount
                               ELSE wallets[i].balance
                      /\ Len(transactions') = Len(transactions) + 1
                      /\ SubSeq(transactions', 1, Len(transactions))
                            = transactions
                      /\ LET row == transactions'[Len(transactions')]
                         IN  /\ row.transaction_type = "deposit"
                             /\ row.amount = me.amount
                             /\ row.currency = "USDT"
                             /\ row.user_id = me.user_id
                             /\ row.recipient_wallet_id = NULL]_vars

\* The balances after a transfer of amount from wallet sender to wallet
\* recipient served alone on the balances bal.
TransferAlone(bal, sender, recipient, amount) ==
    IF InsufficientBalance(bal[sender], amount)
    THEN bal
    ELSE [bal EXCEPT ![sender] = Float(@ - amount),
                     ![recipient] = Float(@ + amount)]

\* C13: when alice's transfer to bob's wallet and bob's transfer to alice's
\* wallet have both been answered 200 and nothing else was written, the two
\* balances are those of serving the two transfers one after the other, in
\* one order or the other, on the opening balances.
C13_OppositeTransfersSerial ==
    (/\ \A w \in Workers : worker[w].pc = "idle"
     /\ Len(transactions) = 4
     /\ \A n \in {3, 4} : transactions[n].transaction_type = "transfer"
     /\ \E n \in {3, 4} : /\ transactions[n].user_id = 1
                           /\ transactions[n].recipient_wallet_id = 2
                           /\ transactions[7 - n].user_id = 2
                           /\ transactions[7 - n].recipient_wallet_id = 1)
       => LET opening == <<transactions[1].amount, transactions[2].amount>>
              x == transactions[3].amount
              y == transactions[4].amount
              balances == <<BalanceOf(1), BalanceOf(2)>>
          IN  \/ balances = TransferAlone(TransferAlone(opening, 1, 2, x), 2, 1, y)
              \/ balances = TransferAlone(TransferAlone(opening, 2, 1, y), 1, 2, x)

\* C14: requests on one wallet are served one after the other: when a
\* request commits, each balance it read and computed its new balance from
\* (the caller's wallet, and the recipient's for a transfer) is still the
\* balance in the database, so that no commit of another request has come
\* between its read and its write.
C14_SameWalletSerialized ==
    [][\A w \in Workers :
          LET me == worker[w]
          IN  (/\ me.pc = "commit"
               /\ worker'[w].pc = "idle"
               /\ sent'.status = 200)
                 => /\ wallets[me.wallet_id].balance = me.loaded
                    /\ (me.transaction_type = "transfer"
                          /\ me.recipient_id # me.wallet_id)
                         => wallets[me.recipient_id].balance = me.rloaded]_vars

\* C15: a login that is refused is answered the same whether the username
\* is unknown or the password is wrong: apart from the username the caller
\* sent, the response is always 401 "Incorrect username or password", with
\* no token, and the refusal changes nothing a later response could show.
C15_LoginFailureUniform ==
    [][\A w \in Workers, u \in Usernames, p \in Passwords :
          (/\ login(w, u, p)
           /\ \/ UserByName(u) = NULL
              \/ ~verify_password(p, users[UserByName(u)].hashed_password))
            => /\ sent' = [Quiet EXCEPT
                              !.op = "login", !.username = u, !.status = 401,
                              !.detail = "Incorrect username or password"]
               /\ UNCHANGED <<users, wallets, transactions, issued, now>>]_vars

\* C15 witness: a login with a wrong password for a registered username has
\* just been refused.
C15_Witness ==
    /\ sent.op = "login"
    /\ sent.status = 401
    /\ UserByName(sent.username) # NULL
    /\ \E w \in Workers : worker[w].op = "create_user"
                           /\ worker[w].username # sent.username
                           /\ UserByName(worker[w].username) = NULL

\* C16: a record-transaction request for a currency the caller has no
\* wallet in is answered 400 "Wallet not found", a transfer to a wallet id
\* that does not exist 400 "Recipient wallet not found", and a kind other
\* than deposit, withdrawal and transfer 400 "Invalid transaction type"; no
\* step of such a request, up to and including the one that answers, changes
\* a balance or the ledger.
C16_FailedRequestLeavesNoTrace ==
    [][/\ (sent'.detail \in {"Wallet not found", "Recipient wallet not found",
                             "Invalid transaction type"})
            => /\ sent'.status = 400
               /\ sent'.op = "create_transaction"
               /\ LedgerUnchanged
       /\ (/\ sent'.op = "create_transaction"
           /\ sent'.user_id # NULL
           /\ WalletOf(sent'.user_id, sent'.currency) = NULL)
            => sent'.detail = "Wallet not found"
       /\ (/\ sent'.op = "create_transaction"
           /\ sent'.transaction_type
                 \notin {"", "deposit", "withdrawal", "transfer"})
            => sent'.detail = "Invalid transaction type"
       /\ \A w \in Workers :
             (worker[w].pc = "recipient" /\ worker'[w] # worker[w])
               => /\ LedgerUnchanged
                  /\ (worker'[w].pc = "idle" /\ sent'.detail # "aborted")
                       => /\ WalletById(sent'.recipient_id) = NULL
                          /\ sent'.detail = "Recipient wallet not found"
                  /\ (worker'[w].pc = "commit")
                       => WalletById(worker'[w].recipient_id) # NULL]_vars

\* C16 witness: alice, whose wallet holds the 1 she deposited, has just been
\* refused a transfer of 1 to a wallet id that no wallet has.
C16_Witness ==
    /\ sent.detail = "Recipient wallet not found"
    /\ sent.amount = 1
    /\ WalletById(sent.recipient_id) = NULL
    /\ BalanceOf(WalletOf(sent.user_id, sent.currency)) = 1
    /\ Len(transactions) = 1

\* C17: in every state a ledger row carries a recipient wallet id if and
\* only if its kind is transfer, and the id a transfer row carries is that
\* of an existing wallet.
C17_RecipientIffTransfer ==
    \A n \in 1..Len(transactions) :
       /\ (transactions[n].recipient_wallet_id # NULL)
             <=> (transactions[n].transaction_type = "transfer")
       /\ (transactions[n].transaction_type = "transfer")
             => WalletById(transactions[n].recipient_wallet_id) # NULL

\* C18: a transfer to the sender's own wallet, of an amount the balance
\* covers, is taken to its commit and answered 200; the commit leaves every
\* balance as it was and appends exactly one row, a transfer that names the
\* wallet itself.
C18_SelfTransferNoOp ==
    [][\A w \in Workers :
          LET me == worker[w]
          IN  /\ (/\ me.pc = "recipient"
                  /\ worker'[w] # me
                  /\ sent'.recipient_id = me.wallet_id)
                   => sent'.detail = "aborted"
              /\ (/\ me.op = "create_transaction"
                  /\ me.transaction_type = "transfer"
                  /\ me.pc = "commit"
                  /\ me.recipient_id = me.wallet_id
                  /\ worker'[w].pc = "idle"
                  /\ sent'.detail # "aborted")
                   => /\ sent'.status = 200
                      /\ wallets' = wallets
                      /\ Len(transactions') = Len(transactions) + 1
                      /\ SubSeq(transactions', 1, Len(transactions))
                            = transactions
                      /\ LET row == transactions'[Len(transactions')]
                         IN  /\ row.transaction_type = "transfer"
                             /\ row.user_id = me.user_id
                             /\ row.amount = me.amount
                             /\ row.recipient_wallet_id = me.wallet_id]_vars

\* C19: no step taken for a request with user u's token lowers the balance
\* of a wallet that is not u's.
C19_OthersNeverDebited ==
    [][\A w \in Workers :
          (worker[w].pc # "idle" /\ worker'[w] # worker[w])
            => \A i \in 1..Len(wallets) :
                  (wallets[i].user_id # worker[w].user_id)
                    => wallets'[i].balance >= wallets[i].balance]_vars

\* What the first n ledger rows say wallet w holds: its owner's deposits
\* (conversions are stored as deposits), minus the owner's withdrawals and
\* transfers, plus every transfer that names w as its recipient.
RECURSIVE LedgerBalance(_, _)
LedgerBalance(w, n) ==
    IF n = 0 THEN 0
    ELSE LET row == transactions[n]
             own == row.user_id = wallets[w].user_id
         IN  LedgerBalance(w, n - 1)
             + (IF own /\ row.transaction_type = "deposit"
                THEN row.amount ELSE 0)
             - (IF own /\ row.transaction_type \in {"withdrawal", "transfer"}
                THEN row.amount ELSE 0)
             + (IF row.transaction_type = "transfer"
                   /\ row.recipient_wallet_id = w
                THEN row.amount ELSE 0)

\* C20: in every state the balance of every wallet is what the ledger says
\* it holds.
C20_LedgerAccountsForBalances ==
    \A w \in 1..Len(wallets) :
       wallets[w].balance = LedgerBalance(w, Len(transactions))

==========================================================================
